---- MODULE Spec2Model ----
(***************************************************************************)
(* Model of hpp::agimus::Discretization (src/src/discretization.cc).       *)
(*                                                                         *)
(* Three callers act on one Discretization object:                         *)
(*   - the sampler, which calls compute(time);                             *)
(*   - the configurator, which calls setPath, setJointNames,               *)
(*     initializeRosNode, addOperationalFrame, addCenterOfMass and         *)
(*     resetTopics;                                                        *)
(*   - the teardown caller, which calls shutdownRos (also run by the       *)
(*     destructor).                                                        *)
(* compute and shutdownRos take mutex_; the configurator's calls do not.   *)
(***************************************************************************)
EXTENDS Integers, Sequences, FiniteSets, TLC

VARIABLES
  path,          \* path_: the path reference (NullPath when not set)
  handle,        \* handle_ != NULL
  rosInit,       \* ros::isInitialized()
  wbOpen,        \* pubQ, pubV, pubA of the object are advertised and not shut down
  frames,        \* frames_: sequence of FrameData
  coms,          \* coms_: sequence of COM
  hasFreeflyer,  \* hasFreeflyer_
  qView,         \* qView_: sequence of <<offset, length>> ranges
  vView,         \* vView_
  mutex,         \* owner of mutex_: "free", "compute" or "shutdown"
  smp,           \* the sampler: position in compute, its argument, its last result
  log,           \* publish calls of the compute call in progress, in order
  cfg,           \* the configurator: position in a registration call, arguments, last
                 \* result (names: the argument of the last call if it is setJointNames)
  td,            \* the teardown caller: position in shutdownRos
  crashed,       \* the process ended abnormally (null dereference, failed assertion)
  regF,          \* history since the last reset, per frame index: the OR of the options
                 \* registered, the number of registrations (0, 1, or 2 for more) and
                 \* the place of the first of them among the first registrations (seq)
  regC           \* history since the last reset, per COM handle: the OR of the options
                 \* registered, the names registered, the latest of them and seq as
                 \* in regF

vars == <<path, handle, rosInit, wbOpen, frames, coms, hasFreeflyer, qView, vView,
          mutex, smp, log, cfg, td, crashed, regF, regC>>

-----------------------------------------------------------------------------
(* Bounds and input sets *)

MaxTime == 1

Times == 0 .. MaxTime

\* Lengths of the paths the configurator may set: eval succeeds on [0, len].
PathLengths == {0}

NullPath == [len |-> -1]

FrameNames == {"f1", "f2"}
UnknownFrameNames == {"ghost"}
AllFrameNames == FrameNames \cup UnknownFrameNames

ComHandles == {"c1", "c2"}
ComNames == {"a", "b"}

Joints == {"root", "j1", "j2", "j3"}

\* Lists of joint names given to setJointNames.
JointLists == {<<>>, <<"root", "j1">>}

\* Longest list of joint names given to setJointNames in SpecJoints and
\* SpecViews.
MaxJoints == 2

RECURSIVE ListsOfLength(_)
ListsOfLength(n) ==
  IF n = 0 THEN {<<>>}
  ELSE {<<j>> \o l : j \in Joints, l \in ListsOfLength(n - 1)}

\* Every list of at most MaxJoints joint names, in every order, repeated
\* names included.
AllJointLists == UNION {ListsOfLength(n) : n \in 0 .. MaxJoints}

-----------------------------------------------------------------------------
(* ComputationOption *)

Position == 1
Derivative == 2
Acceleration == 4
PositionAndDerivative == 3

Options == {Position, Derivative, Acceleration, PositionAndDerivative}

Bits == {Position, Derivative, Acceleration}

\* option & bit
HasBit(option, bit) == (option \div bit) % 2 = 1

\* a | b
BitOr(a, b) ==
  LET bit(k) == IF HasBit(a, k) \/ HasBit(b, k) THEN k ELSE 0
  IN bit(Position) + bit(Derivative) + bit(Acceleration)

-----------------------------------------------------------------------------
(* The device model *)

\* variant of existFrame for mutation testing: every name has a frame
existFrame_AnyName(name) == TRUE

existFrame(name) == name \in FrameNames

getFrameId(name) == IF name = "f1" THEN 1 ELSE 2

FrameIndices == {getFrameId(n) : n \in FrameNames}

\* joint->configurationSpace() is one of SE3, R3xSO3, SE2, R2xSO2
IsFreeflyerJoint(j) == j = "root"

\* The joints of the device: a floating base, then j1, j2 and j3. j1 and j2
\* are neighbours in the configuration and velocity vectors, j3 is not a
\* neighbour of j1.
rankInConfiguration(j) ==
  IF j = "root" THEN 0 ELSE IF j = "j1" THEN 7 ELSE IF j = "j2" THEN 8 ELSE 10
configSize(j) == IF j = "root" THEN 7 ELSE IF j = "j2" THEN 2 ELSE 1
rankInVelocity(j) ==
  IF j = "root" THEN 0 ELSE IF j = "j1" THEN 6 ELSE IF j = "j2" THEN 7 ELSE 8
numberDof(j) == IF j = "root" THEN 6 ELSE 1

\* device_->configSize() and device_->numberDof()
DeviceConfigSize == rankInConfiguration("j3") + configSize("j3")
DeviceNumberDof == rankInVelocity("j3") + numberDof("j3")

-----------------------------------------------------------------------------
(* Publishers *)

\* A default-constructed ros::Publisher.
NoPub == [topic |-> <<>>, live |-> FALSE]

\* nh.advertise(topic): live tells whether nh was a live NodeHandle.
Advertise(topic, live) == [topic |-> topic, live |-> live]

FrameData(index, option) ==
  [index |-> index, option |-> option, pubQ |-> NoPub, pubV |-> NoPub]

COM(c, option) ==
  [com |-> c, option |-> option, pubQ |-> NoPub, pubV |-> NoPub]

FrameInitPublishers(f, name, live) ==
  [f EXCEPT
     !.pubQ = IF HasBit(f.option, Position)
              THEN Advertise(<<"op_frame", name>>, live) ELSE @,
     !.pubV = IF HasBit(f.option, Derivative)
              THEN Advertise(<<"velocity/op_frame", name>>, live) ELSE @]

ComInitPublishers(c, name, live) ==
  [c EXCEPT
     !.pubQ = IF HasBit(c.option, Position)
              THEN Advertise(<<"com", name>>, live) ELSE @,
     !.pubV = IF HasBit(c.option, Derivative)
              THEN Advertise(<<"velocity/com", name>>, live) ELSE @]

\* initPublishers calls advertise at least once
Advertises(option) == HasBit(option, Position) \/ HasBit(option, Derivative)

-----------------------------------------------------------------------------
(* Row views *)

RECURSIVE SumLengths(_)
SumLengths(rows) ==
  IF rows = <<>> THEN 0 ELSE Head(rows)[2] + SumLengths(Tail(rows))

\* RowBlockIndices::nbIndices(), as set by updateRows<true,true,true>()
nbIndices(view) == SumLengths(view)

\* BlockIndex::sort: the rows ordered by first index
RECURSIVE InsertRow(_, _)
InsertRow(row, sorted) ==
  IF sorted = <<>> THEN <<row>>
  ELSE IF row[1] < Head(sorted)[1] \/ (row[1] = Head(sorted)[1] /\ row[2] <= Head(sorted)[2])
       THEN <<row>> \o sorted
       ELSE <<Head(sorted)>> \o InsertRow(row, Tail(sorted))

RECURSIVE SortRows(_)
SortRows(rows) ==
  IF rows = <<>> THEN <<>> ELSE InsertRow(Head(rows), SortRows(Tail(rows)))

\* BlockIndex::shrink on sorted rows: a row that overlaps or touches the row
\* before it is merged into it
RECURSIVE ShrinkRows(_)
ShrinkRows(rows) ==
  IF Len(rows) < 2 THEN rows
  ELSE LET a == rows[1]
           b == rows[2]
           end == IF a[1] + a[2] >= b[1] + b[2] THEN a[1] + a[2] ELSE b[1] + b[2]
       IN IF b[1] <= a[1] + a[2]
          THEN ShrinkRows(<<<<a[1], end - a[1]>>>> \o Tail(Tail(rows)))
          ELSE <<a>> \o ShrinkRows(Tail(rows))

\* variant of updateRows for mutation testing: the rows are left as added
updateRows_AsAdded(rows) == rows

\* RowBlockIndices::updateRows<true,true,true>(): the template arguments ask
\* for the rows to be sorted, then shrunk; the third asks for the number of
\* indices to be recomputed (nbIndices above)
updateRows(rows) == ShrinkRows(SortRows(rows))

\* RowBlockIndices::rview(vec): the selected rows of the full vector vec,
\* row after row in the order of the view (vec is indexed from 1, ranks from 0)
RECURSIVE rview(_, _)
rview(view, vec) ==
  IF view = <<>> THEN <<>>
  ELSE SubSeq(vec, Head(view)[1] + 1, Head(view)[1] + Head(view)[2])
       \o rview(Tail(view), vec)

RECURSIVE JointRows(_, _)
\* the rows the loop of setJointNames adds: kind is "q" or "v"
JointRows(names, kind) ==
  IF names = <<>> THEN <<>>
  ELSE LET j == Head(names)
           rest == JointRows(Tail(names), kind)
       IN IF IsFreeflyerJoint(j) THEN rest
          ELSE IF kind = "q"
               THEN <<<<rankInConfiguration(j), configSize(j)>>>> \o rest
               ELSE <<<<rankInVelocity(j), numberDof(j)>>>> \o rest

JointsHaveFreeflyer(names) ==
  \E i \in 1 .. Len(names) : IsFreeflyerJoint(names[i])

-----------------------------------------------------------------------------
(* Initial state: a constructed object, no path, ROS not initialized *)

Init ==
  /\ path = NullPath
  /\ handle = FALSE
  /\ rosInit = FALSE
  /\ wbOpen = FALSE
  /\ frames = <<>>
  /\ coms = <<>>
  /\ hasFreeflyer = FALSE
  /\ qView = <<>>
  /\ vView = <<>>
  /\ mutex = "free"
  /\ smp = [pc |-> "idle", time |-> 0, res |-> "none"]
  /\ log = <<>>
  /\ cfg = [pc |-> "idle", name |-> "", com |-> "", option |-> 0,
            op |-> "none", ret |-> "none", names |-> <<>>]
  /\ td = "idle"
  /\ crashed = FALSE
  /\ regF = [i \in FrameIndices |-> [option |-> 0, calls |-> 0, seq |-> 0]]
  /\ regC = [c \in ComHandles |-> [option |-> 0, names |-> {}, last |-> "", seq |-> 0]]

-----------------------------------------------------------------------------
(* The configurator's calls. None of them takes mutex_. *)

\* the configurator is back from call op with result ret
Returned(op, ret) ==
  [pc |-> "idle", name |-> "", com |-> "", option |-> 0, op |-> op, ret |-> ret,
   names |-> <<>>]

\* the path setter of the class: takes mutex_ and stores the reference
SetPath(p) ==
  /\ ~crashed /\ cfg.pc = "idle"
  /\ mutex = "free"
  /\ path' = p
  /\ cfg' = Returned("setPath", "void")
  /\ UNCHANGED <<handle, rosInit, wbOpen, frames, coms, hasFreeflyer, qView, vView,
                 mutex, smp, log, td, crashed, regF, regC>>

\* variant of setJointNames for mutation testing: the flag and the views are
\* not reset before the loop
setJointNames_KeepsRows(names) ==
  /\ ~crashed /\ cfg.pc = "idle"
  /\ hasFreeflyer' = (hasFreeflyer \/ JointsHaveFreeflyer(names))
  /\ qView' = updateRows(qView \o JointRows(names, "q"))
  /\ vView' = updateRows(vView \o JointRows(names, "v"))
  /\ cfg' = [Returned("setJointNames", "void") EXCEPT !.names = names]
  /\ UNCHANGED <<path, handle, rosInit, wbOpen, frames, coms,
                 mutex, smp, log, td, crashed, regF, regC>>

setJointNames(names) ==
  /\ ~crashed /\ cfg.pc = "idle"
  /\ hasFreeflyer' = JointsHaveFreeflyer(names)
  /\ qView' = updateRows(JointRows(names, "q"))
  /\ vView' = updateRows(JointRows(names, "v"))
  /\ cfg' = [Returned("setJointNames", "void") EXCEPT !.names = names]
  /\ UNCHANGED <<path, handle, rosInit, wbOpen, frames, coms,
                 mutex, smp, log, td, crashed, regF, regC>>

initializeRosNode ==
  /\ ~crashed /\ cfg.pc = "idle"
  /\ rosInit' = TRUE
  /\ handle' = TRUE
  /\ wbOpen' = TRUE
  /\ cfg' = Returned("initializeRosNode", IF handle THEN "false" ELSE "true")
  /\ UNCHANGED <<path, frames, coms, hasFreeflyer, qView, vView,
                 mutex, smp, log, td, crashed, regF, regC>>

NoRegF == [i \in FrameIndices |-> [option |-> 0, calls |-> 0, seq |-> 0]]
NoRegC == [c \in ComHandles |-> [option |-> 0, names |-> {}, last |-> "", seq |-> 0]]

\* variant of resetTopics for mutation testing: the whole-body channels are
\* closed with the others
resetTopics_ClosesAll ==
  /\ ~crashed /\ cfg.pc = "idle"
  /\ frames' = <<>>
  /\ coms' = <<>>
  /\ regF' = NoRegF
  /\ regC' = NoRegC
  /\ wbOpen' = FALSE
  /\ cfg' = Returned("resetTopics", "void")
  /\ UNCHANGED <<path, handle, rosInit, hasFreeflyer, qView, vView,
                 mutex, smp, log, td, crashed>>

resetTopics ==
  /\ ~crashed /\ cfg.pc = "idle"
  /\ frames' = <<>>
  /\ coms' = <<>>
  /\ regF' = NoRegF
  /\ regC' = NoRegC
  /\ cfg' = Returned("resetTopics", "void")
  /\ UNCHANGED <<path, handle, rosInit, wbOpen, hasFreeflyer, qView, vView,
                 mutex, smp, log, td, crashed>>

\* variant of FindFrame for mutation testing: the search skips the first target
FindFrame_SkipsFirst(list, index) ==
  IF \E i \in 2 .. Len(list) : list[i].index = index
  THEN CHOOSE i \in 2 .. Len(list) :
         /\ list[i].index = index
         /\ \A k \in 2 .. (i - 1) : list[k].index # index
  ELSE 0

\* position of the first target of list with the frame index, 0 if none
FindFrame(list, index) ==
  IF \E i \in 1 .. Len(list) : list[i].index = index
  THEN CHOOSE i \in 1 .. Len(list) :
         /\ list[i].index = index
         /\ \A k \in 1 .. (i - 1) : list[k].index # index
  ELSE 0

\* variant of FindCom for mutation testing: the search skips the first target
FindCom_SkipsFirst(list, c) ==
  IF \E i \in 2 .. Len(list) : list[i].com = c
  THEN CHOOSE i \in 2 .. Len(list) :
         /\ list[i].com = c
         /\ \A k \in 2 .. (i - 1) : list[k].com # c
  ELSE 0

\* position of the first target of list with the handle, 0 if none
FindCom(list, c) ==
  IF \E i \in 1 .. Len(list) : list[i].com = c
  THEN CHOOSE i \in 1 .. Len(list) :
         /\ list[i].com = c
         /\ \A k \in 1 .. (i - 1) : list[k].com # c
  ELSE 0

\* variant of MergeFrame for mutation testing: the option is overwritten
MergeFrame_Overwrites(list, index, option) ==
  LET k == FindFrame(list, index)
  IN IF k # 0 THEN [list EXCEPT ![k].option = option]
     ELSE Append(list, FrameData(index, option))

\* frames_ after the option is merged or the target pushed, before initPublishers
MergeFrame(list, index, option) ==
  LET k == FindFrame(list, index)
  IN IF k # 0 THEN [list EXCEPT ![k].option = BitOr(@, option)]
     ELSE Append(list, FrameData(index, option))

MergeCom(list, c, option) ==
  LET k == FindCom(list, c)
  IN IF k # 0 THEN [list EXCEPT ![k].option = BitOr(@, option)]
     ELSE Append(list, COM(c, option))

\* variant of addOperationalFrameCall for mutation testing: handle_ is not tested
addOperationalFrameCall_NoTest(name, option) ==
  /\ ~crashed /\ cfg.pc = "idle"
  /\ cfg' = [pc |-> "addOperationalFrame", name |-> name, com |-> "",
             option |-> option, op |-> "addOperationalFrame", ret |-> "none",
                  names |-> <<>>]
  /\ UNCHANGED <<path, handle, rosInit, wbOpen, frames, coms, hasFreeflyer, qView,
                 vView, mutex, smp, log, td, crashed, regF, regC>>

\* addOperationalFrame up to the test of handle_
addOperationalFrameCall(name, option) ==
  /\ ~crashed /\ cfg.pc = "idle"
  /\ cfg' = IF ~handle
            THEN Returned("addOperationalFrame", "NotInitialized")
            ELSE [pc |-> "addOperationalFrame", name |-> name, com |-> "",
                  option |-> option, op |-> "addOperationalFrame", ret |-> "none",
                  names |-> <<>>]
  /\ UNCHANGED <<path, handle, rosInit, wbOpen, frames, coms, hasFreeflyer, qView,
                 vView, mutex, smp, log, td, crashed, regF, regC>>

\* addOperationalFrame after the test of handle_
addOperationalFrameBody ==
  /\ ~crashed /\ cfg.pc = "addOperationalFrame"
  /\ IF ~existFrame(cfg.name)
     THEN /\ cfg' = Returned("addOperationalFrame", "false")
          /\ UNCHANGED <<frames, regF, crashed>>
     ELSE LET index == getFrameId(cfg.name)
              found == FindFrame(frames, index)
              merged == MergeFrame(frames, index, cfg.option)
              \* frames_[i] of the loop, or frames_.back()
              k == IF found # 0 THEN found ELSE Len(merged)
          IN /\ regF' = [regF EXCEPT ![index] =
                             [option |-> BitOr(@.option, cfg.option),
                              calls |-> IF @.calls = 0 THEN 1 ELSE 2,
                              seq |-> IF @.calls # 0 THEN @.seq
                                      ELSE 1 + Cardinality({i \in FrameIndices :
                                                              regF[i].calls # 0})]]
             /\ \/ /\ handle \/ ~Advertises(merged[k].option)
                   /\ frames' = [merged EXCEPT
                                   ![k] = FrameInitPublishers(@, cfg.name, TRUE)]
                   /\ cfg' = Returned("addOperationalFrame", "true")
                   /\ UNCHANGED crashed
                \* *handle_ after shutdownRos deleted it: the advertise call
                \* runs on a released NodeHandle, or the process dies in it
                \/ /\ ~handle /\ Advertises(merged[k].option)
                   /\ frames' = [merged EXCEPT
                                   ![k] = FrameInitPublishers(@, cfg.name, FALSE)]
                   /\ cfg' = Returned("addOperationalFrame", "true")
                   /\ UNCHANGED crashed
                \/ /\ ~handle /\ Advertises(merged[k].option)
                   /\ frames' = merged
                   /\ crashed' = TRUE
                   /\ UNCHANGED cfg
  /\ UNCHANGED <<path, handle, rosInit, wbOpen, coms, hasFreeflyer, qView, vView,
                 mutex, smp, log, td, regC>>

addCenterOfMassCall(name, c, option) ==
  /\ ~crashed /\ cfg.pc = "idle"
  /\ cfg' = IF ~handle
            THEN Returned("addCenterOfMass", "NotInitialized")
            ELSE [pc |-> "addCenterOfMass", name |-> name, com |-> c,
                  option |-> option, op |-> "addCenterOfMass", ret |-> "none",
                  names |-> <<>>]
  /\ UNCHANGED <<path, handle, rosInit, wbOpen, frames, coms, hasFreeflyer, qView,
                 vView, mutex, smp, log, td, crashed, regF, regC>>

addCenterOfMassBody ==
  /\ ~crashed /\ cfg.pc = "addCenterOfMass"
  /\ LET found == FindCom(coms, cfg.com)
         merged == MergeCom(coms, cfg.com, cfg.option)
         \* coms_[i] of the loop, or coms_.back()
         k == IF found # 0 THEN found ELSE Len(merged)
     IN /\ regC' = [regC EXCEPT ![cfg.com] =
                      [option |-> BitOr(@.option, cfg.option),
                       names |-> @.names \cup {cfg.name},
                       last |-> cfg.name,
                       seq |-> IF @.option # 0 THEN @.seq
                               ELSE 1 + Cardinality({c \in ComHandles :
                                                       regC[c].option # 0})]]
        /\ \/ /\ handle \/ ~Advertises(merged[k].option)
              /\ coms' = [merged EXCEPT ![k] = ComInitPublishers(@, cfg.name, TRUE)]
              /\ cfg' = Returned("addCenterOfMass", "true")
              /\ UNCHANGED crashed
           \/ /\ ~handle /\ Advertises(merged[k].option)
              /\ coms' = [merged EXCEPT ![k] = ComInitPublishers(@, cfg.name, FALSE)]
              /\ cfg' = Returned("addCenterOfMass", "true")
              /\ UNCHANGED crashed
           \/ /\ ~handle /\ Advertises(merged[k].option)
              /\ coms' = merged
              /\ crashed' = TRUE
              /\ UNCHANGED cfg
  /\ UNCHANGED <<path, handle, rosInit, wbOpen, frames, hasFreeflyer, qView, vView,
                 mutex, smp, log, td, regF>>

-----------------------------------------------------------------------------
(* shutdownRos, also called by the destructor *)

\* the test of handle_, made before the lock is taken
shutdownRosCall ==
  /\ ~crashed /\ td = "idle"
  /\ td' = IF ~handle THEN "idle" ELSE "wait"
  /\ UNCHANGED <<path, handle, rosInit, wbOpen, frames, coms, hasFreeflyer, qView,
                 vView, mutex, smp, log, cfg, crashed, regF, regC>>

shutdownRosLock ==
  /\ ~crashed /\ td = "wait"
  /\ mutex = "free"
  /\ mutex' = "shutdown"
  /\ td' = "locked"
  /\ UNCHANGED <<path, handle, rosInit, wbOpen, frames, coms, hasFreeflyer, qView,
                 vView, smp, log, cfg, crashed, regF, regC>>

\* variant of shutdownRosBody for mutation testing: resetTopics is not called
shutdownRosBody_KeepsTargets ==
  /\ ~crashed /\ td = "locked"
  /\ wbOpen' = FALSE
  /\ handle' = FALSE
  /\ mutex' = "free"
  /\ td' = "idle"
  /\ UNCHANGED <<path, rosInit, frames, coms, hasFreeflyer, qView, vView, smp, log,
                 cfg, crashed, regF, regC>>

\* the body of shutdownRos, run with the lock held
shutdownRosBody ==
  /\ ~crashed /\ td = "locked"
  /\ frames' = <<>>
  /\ coms' = <<>>
  /\ regF' = NoRegF
  /\ regC' = NoRegC
  /\ wbOpen' = FALSE
  /\ handle' = FALSE
  /\ mutex' = "free"
  /\ td' = "idle"
  /\ UNCHANGED <<path, rosInit, hasFreeflyer, qView, vView, smp, log, cfg, crashed>>

-----------------------------------------------------------------------------
(* compute *)

\* variant of PathIsSet for mutation testing: path_ is not tested
PathIsSet_NoTest(p) == TRUE

\* path_ is not null
PathIsSet(p) == p # NullPath

\* variant of PathEval for mutation testing: the result of eval is ignored
PathEval_Ignored(p, time) == TRUE

\* path_->eval (q_, time)
PathEval(p, time) == 0 <= time /\ time <= p.len

\* one publish call: the publisher pub of a target, or of the object
Msg(kind, index, c, bit, pub, len) ==
  [kind |-> kind, index |-> index, com |-> c, bit |-> bit,
   ok |-> pub.live, len |-> len]

\* variant of sizeFreeflyer for mutation testing: the size of the
\* configuration of the floating base is used
sizeFreeflyer_ConfigSize == IF hasFreeflyer THEN configSize("root") ELSE 0

sizeFreeflyer == IF hasFreeflyer THEN 6 ELSE 0

\* The scalars of the messages are symbols: <<"q", r>> is the entry of rank r
\* of the sampled configuration q_, likewise "v" and "a" for v_ and a_;
\* <<"oMrj", k>> is scalar k of the placement of the root joint (translation,
\* then Euler angles); Zero is 0 and Unset a value-initialized entry of a
\* resized vector that nothing was written to.
Zero == <<"zero", 0>>
Unset == <<"unset", 0>>

\* q_, v_, a_ after the evaluation of the path
Sampled(tag, n) == [i \in 1 .. n |-> <<tag, i - 1>>]

\* data.resize(n): the first entries are kept, new entries are value-initialized
Resize(data, n) ==
  [i \in 1 .. n |-> IF i <= Len(data) THEN data[i] ELSE Unset]

\* Eigen::Map (data.data() + offset, Len(vals)) = vals
MapAssign(data, offset, vals) ==
  [i \in 1 .. Len(data) |->
     IF offset < i /\ i <= offset + Len(vals) THEN vals[i - offset] ELSE data[i]]

\* qmsgs.data at pubQ.publish (lines 122-131)
PositionData ==
  LET resized == Resize(<<>>, nbIndices(qView) + sizeFreeflyer)
      rows == MapAssign(resized, sizeFreeflyer, rview(qView, Sampled("q", DeviceConfigSize)))
  IN IF hasFreeflyer
     THEN MapAssign(rows, 0, [k \in 1 .. 6 |-> <<"oMrj", k>>])
     ELSE rows

\* qmsgs.data at pubV.publish (lines 133-140)
VelocityData ==
  LET resized == Resize(PositionData, nbIndices(vView) + sizeFreeflyer)
      rows == MapAssign(resized, sizeFreeflyer, rview(vView, Sampled("v", DeviceNumberDof)))
  IN MapAssign(rows, 0, [k \in 1 .. sizeFreeflyer |-> Zero])

\* qmsgs.data at pubA.publish (lines 142-148): the vector is not resized
AccelerationData ==
  LET rows == MapAssign(VelocityData, sizeFreeflyer,
                        rview(vView, Sampled("a", DeviceNumberDof)))
  IN MapAssign(rows, 0, [k \in 1 .. sizeFreeflyer |-> Zero])

WholeBodyMsg(bit, topic, data) ==
  Msg("wb", 0, "", bit, Advertise(<<topic>>, wbOpen), Len(data)) @@ [data |-> data]

\* pubQ.publish, pubV.publish, pubA.publish of the whole-body vectors
WholeBodyMsgs ==
  << WholeBodyMsg("Q", "position", PositionData),
     WholeBodyMsg("V", "velocity", VelocityData),
     WholeBodyMsg("A", "acceleration", AccelerationData) >>

\* variant of FrameMsgs for mutation testing: the velocity is published
\* before the pose
FrameMsgs_VelocityFirst(f) ==
  (IF HasBit(f.option, Derivative)
   THEN <<Msg("frame", f.index, "", "V", f.pubV, 6)>> ELSE <<>>)
  \o
  (IF HasBit(f.option, Position)
   THEN <<Msg("frame", f.index, "", "Q", f.pubQ, 7)>> ELSE <<>>)

\* one iteration of the loop over frames_
FrameMsgs(f) ==
  (IF HasBit(f.option, Position)
   THEN <<Msg("frame", f.index, "", "Q", f.pubQ, 7)>> ELSE <<>>)
  \o
  (IF HasBit(f.option, Derivative)
   THEN <<Msg("frame", f.index, "", "V", f.pubV, 6)>> ELSE <<>>)

\* The centre-of-mass entries of the DeviceData d that compute works on: com
\* and Jcom tell which COM handle computed the entry for the current
\* sample. d is taken from the device when compute starts and holds what
\* earlier computations left ("old").
OldData == [com |-> "old", Jcom |-> "old"]

\* COM::compute (d): the switch on option has a case for each of the four
\* named values of ComputationOption; an option that is none of them
\* (Position|Acceleration, Derivative|Acceleration, all three bits) matches
\* no case. com->compute is taken to compute what its flag names.
ComCompute(c, d) ==
  CASE c.option = Position -> [d EXCEPT !.com = c.com]
    [] c.option = Derivative -> [d EXCEPT !.Jcom = c.com]
    [] c.option = Acceleration -> d
    [] c.option = PositionAndDerivative -> [com |-> c.com, Jcom |-> c.com]
    [] OTHER -> d

\* one iteration of the loop over coms_, on the data d left by com.compute:
\* value tells whose computation the published vector comes from
ComMsgs(c, d) ==
  (IF HasBit(c.option, Position)
   THEN <<Msg("com", 0, c.com, "Q", c.pubQ, 3) @@ [value |-> d.com]>> ELSE <<>>)
  \o
  (IF HasBit(c.option, Derivative)
   THEN <<Msg("com", 0, c.com, "V", c.pubV, 3) @@ [value |-> d.Jcom]>> ELSE <<>>)

RECURSIVE AllFrameMsgs(_)
AllFrameMsgs(list) ==
  IF list = <<>> THEN <<>> ELSE FrameMsgs(Head(list)) \o AllFrameMsgs(Tail(list))

\* the loop over coms_ from the data d
RECURSIVE AllComMsgs(_, _)
AllComMsgs(list, d) ==
  IF list = <<>> THEN <<>>
  ELSE LET computed == ComCompute(Head(list), d)
       IN ComMsgs(Head(list), computed) \o AllComMsgs(Tail(list), computed)

\* positions of the publish calls made on a publisher that is not valid
Invalid(msgs) == {i \in 1 .. Len(msgs) : ~msgs[i].ok}

FirstInvalid(msgs) ==
  CHOOSE i \in Invalid(msgs) : \A k \in Invalid(msgs) : i <= k

\* The publish calls msgs are made in order. ros::Publisher::publish on an
\* invalid publisher drops the message (ROS_ASSERT_MSG compiled out) or ends
\* the process (assertions enabled).
Publish(msgs, nextSmp, nextMutex) ==
  \/ /\ log' = log \o msgs
     /\ smp' = nextSmp
     /\ mutex' = nextMutex
     /\ UNCHANGED crashed
  \/ /\ Invalid(msgs) # {}
     /\ log' = log \o SubSeq(msgs, 1, FirstInvalid(msgs) - 1)
     /\ crashed' = TRUE
     /\ UNCHANGED <<smp, mutex>>

\* boost::mutex::scoped_lock lock(mutex_)
computeLock(time) ==
  /\ ~crashed /\ smp.pc = "idle"
  /\ mutex = "free"
  /\ mutex' = "compute"
  /\ smp' = [pc |-> "locked", time |-> time, res |-> "none"]
  /\ log' = <<>>
  /\ UNCHANGED <<path, handle, rosInit, wbOpen, frames, coms, hasFreeflyer, qView,
                 vView, cfg, td, crashed, regF, regC>>

\* variant of computeEval for mutation testing: the lock is not released
\* when compute throws
computeEval_KeepsLock ==
  /\ ~crashed /\ smp.pc = "locked"
  /\ IF ~PathIsSet(path)
     THEN smp' = [pc |-> "idle", time |-> 0, res |-> "NotConfigured"]
     ELSE IF ~PathEval(path, smp.time)
     THEN smp' = [pc |-> "idle", time |-> 0, res |-> "EvaluationFailed"]
     ELSE smp' = [pc |-> "wholeBody", time |-> 0, res |-> "none"]
  /\ UNCHANGED <<path, handle, rosInit, wbOpen, frames, coms, hasFreeflyer, qView,
                 vView, mutex, log, cfg, td, crashed, regF, regC>>

\* the test of path_, the evaluation of the path and the forward kinematics
computeEval ==
  /\ ~crashed /\ smp.pc = "locked"
  /\ IF ~PathIsSet(path)
     THEN /\ smp' = [pc |-> "idle", time |-> 0, res |-> "NotConfigured"]
          /\ mutex' = "free"
     ELSE IF ~PathEval(path, smp.time)
     THEN /\ smp' = [pc |-> "idle", time |-> 0, res |-> "EvaluationFailed"]
          /\ mutex' = "free"
     ELSE /\ smp' = [pc |-> "wholeBody", time |-> 0, res |-> "none"]
          /\ UNCHANGED mutex
  /\ UNCHANGED <<path, handle, rosInit, wbOpen, frames, coms, hasFreeflyer, qView,
                 vView, log, cfg, td, crashed, regF, regC>>

computeWholeBody ==
  /\ ~crashed /\ smp.pc = "wholeBody"
  /\ Publish(WholeBodyMsgs, [smp EXCEPT !.pc = "frames"], mutex)
  /\ UNCHANGED <<path, handle, rosInit, wbOpen, frames, coms, hasFreeflyer, qView,
                 vView, cfg, td, regF, regC>>

computeFrames ==
  /\ ~crashed /\ smp.pc = "frames"
  /\ Publish(AllFrameMsgs(frames), [smp EXCEPT !.pc = "coms"], mutex)
  /\ UNCHANGED <<path, handle, rosInit, wbOpen, frames, coms, hasFreeflyer, qView,
                 vView, cfg, td, regF, regC>>

computeComs ==
  /\ ~crashed /\ smp.pc = "coms"
  /\ Publish(AllComMsgs(coms, OldData), [smp EXCEPT !.pc = "return"], mutex)
  /\ UNCHANGED <<path, handle, rosInit, wbOpen, frames, coms, hasFreeflyer, qView,
                 vView, cfg, td, regF, regC>>

\* the end of compute: the scoped lock is released
computeReturn ==
  /\ ~crashed /\ smp.pc = "return"
  /\ smp' = [pc |-> "idle", time |-> 0, res |-> "ok"]
  /\ mutex' = "free"
  /\ log' = <<>>
  /\ UNCHANGED <<path, handle, rosInit, wbOpen, frames, coms, hasFreeflyer, qView,
                 vView, cfg, td, crashed, regF, regC>>

-----------------------------------------------------------------------------

Paths == {[len |-> l] : l \in PathLengths}

\* The steps of the sampler and of the teardown caller, and the configurator's
\* calls that take no registration argument.
Lifecycle ==
  \/ \E p \in Paths \cup {NullPath} : SetPath(p)
  \/ initializeRosNode
  \/ resetTopics
  \/ shutdownRosCall
  \/ shutdownRosLock
  \/ shutdownRosBody
  \/ \E time \in Times : computeLock(time)
  \/ computeEval
  \/ computeWholeBody
  \/ computeFrames
  \/ computeComs
  \/ computeReturn

FrameCalls(names, options) ==
  \/ \E name \in names, option \in options : addOperationalFrameCall(name, option)
  \/ addOperationalFrameBody

ComCalls(names, handles, options) ==
  \/ \E name \in names, c \in handles, option \in options :
       addCenterOfMassCall(name, c, option)
  \/ addCenterOfMassBody

\* All the calls, on one frame and one COM handle.
Next ==
  \/ Lifecycle
  \/ \E names \in JointLists : setJointNames(names)
  \/ FrameCalls({"f1", "ghost"}, {Position, Derivative})
  \/ ComCalls({"a"}, {"c1"}, {Position, Derivative})

Spec == Init /\ [][Next]_vars

\* Registrations of one frame and one COM handle with every option.
NextModes ==
  \/ Lifecycle
  \/ FrameCalls({"f1"}, Options)
  \/ ComCalls({"a"}, {"c1"}, Options)

SpecModes == Init /\ [][NextModes]_vars

\* Frame registrations on every frame name.
NextFrames ==
  \/ Lifecycle
  \/ FrameCalls(AllFrameNames, {Position, Derivative})

SpecFrames == Init /\ [][NextFrames]_vars

\* COM registrations on every handle and name.
NextComs ==
  \/ Lifecycle
  \/ ComCalls(ComNames, ComHandles, {Position, Derivative})

SpecComs == Init /\ [][NextComs]_vars

\* setJointNames on every list of joint names, around the compute calls of
\* an initialized object; no registration and no shutdown.
NextJoints ==
  \/ \E p \in Paths \cup {NullPath} : SetPath(p)
  \/ initializeRosNode
  \/ \E names \in AllJointLists : setJointNames(names)
  \/ \E time \in Times : computeLock(time)
  \/ computeEval
  \/ computeWholeBody
  \/ computeFrames
  \/ computeComs
  \/ computeReturn

SpecJoints == Init /\ [][NextJoints]_vars

\* The configurator alone: setJointNames on every list of joint names, before
\* and after the path is set and the transport initialized.
NextViews ==
  \/ \E p \in Paths \cup {NullPath} : SetPath(p)
  \/ initializeRosNode
  \/ \E names \in AllJointLists : setJointNames(names)

SpecViews == Init /\ [][NextViews]_vars

\* Registrations of two frames and of two COM handles, with the pose or
\* position and the velocity.
NextOrder ==
  \/ Lifecycle
  \/ FrameCalls(FrameNames, {PositionAndDerivative})
  \/ ComCalls({"a"}, ComHandles, {PositionAndDerivative})

SpecOrder == Init /\ [][NextOrder]_vars

\* The calls on one frame, with fairness: a thread inside compute or inside
\* the body of shutdownRos goes on running (weak fairness of their steps),
\* and a thread blocked on mutex_ gets it if the mutex is free again and
\* again (strong fairness of shutdownRosLock).
NextLive ==
  \/ Lifecycle
  \/ FrameCalls({"f1"}, {PositionAndDerivative})

SpecLive ==
  /\ Init /\ [][NextLive]_vars
  /\ WF_vars(computeEval)
  /\ WF_vars(computeWholeBody)
  /\ WF_vars(computeFrames)
  /\ WF_vars(computeComs)
  /\ WF_vars(computeReturn)
  /\ WF_vars(shutdownRosBody)
  /\ SF_vars(shutdownRosLock)

-----------------------------------------------------------------------------
(* Claims *)

\* number of messages of the compute call in progress that the channel has received
Received(kind, index, c, bit) ==
  Cardinality({i \in 1 .. Len(log) :
                 /\ log[i].kind = kind /\ log[i].index = index
                 /\ log[i].com = c /\ log[i].bit = bit /\ log[i].ok})

\* the channel is a whole-body channel or an enabled channel of a registered target
Enabled(kind, index, c, bit) ==
  \/ kind = "wb"
  \/ /\ kind = "frame"
     /\ \E i \in 1 .. Len(frames) :
          /\ frames[i].index = index
          /\ HasBit(frames[i].option, IF bit = "Q" THEN Position ELSE Derivative)
  \/ /\ kind = "com"
     /\ \E i \in 1 .. Len(coms) :
          /\ coms[i].com = c
          /\ HasBit(coms[i].option, IF bit = "Q" THEN Position ELSE Derivative)

ExactlyOncePerChannel ==
  /\ \A bit \in {"Q", "V", "A"} : Received("wb", 0, "", bit) = 1
  /\ \A index \in FrameIndices, bit \in {"Q", "V"} :
       Received("frame", index, "", bit) =
         IF Enabled("frame", index, "", bit) THEN 1 ELSE 0
  /\ \A c \in ComHandles, bit \in {"Q", "V"} :
       Received("com", 0, c, bit) = IF Enabled("com", 0, c, bit) THEN 1 ELSE 0

\* C1: when a compute call is about to return normally, each whole-body
\* channel and each enabled channel of each registered Frame and COM target
\* has received exactly one message of that call, and no other channel has
\* received any.
C1_ExactlyOnePerChannel == smp.pc = "return" => ExactlyOncePerChannel

\* the step is the first step of a compute call
StartsCompute == \E time \in Times : computeLock(time)

\* C2: a compute call whose path cannot be evaluated at the requested time
\* fails with EvaluationFailed, no channel has received a message of that
\* call, and its steps leave the target lists, the row views, the freeflyer
\* flag, the channels and the transport handle as they were.
C2_EvaluationFailed ==
  [][ /\ (computeEval /\ path # NullPath /\ smp.time > path.len)
           => /\ smp'.pc = "idle" /\ smp'.res = "EvaluationFailed"
              /\ mutex' = "free"
              /\ log = <<>> /\ log' = <<>>
      /\ (StartsCompute \/ computeEval)
           => UNCHANGED <<frames, coms, qView, vView, hasFreeflyer, wbOpen, handle>>
    ]_vars

\* a compute call failed on the evaluation of the path while the transport
\* was initialized and a Frame and a COM target were registered
C2_Witness ==
  /\ smp.res = "EvaluationFailed" /\ log = <<>>
  /\ handle /\ frames # <<>> /\ coms # <<>>

\* C3: a compute call made while no path is set fails with NotConfigured and
\* no channel has received a message of that call, whatever the targets and
\* the state of the transport.
C3_NotConfigured ==
  [][ /\ (computeEval /\ path = NullPath)
           => /\ smp'.pc = "idle" /\ smp'.res = "NotConfigured"
              /\ mutex' = "free"
              /\ log = <<>> /\ log' = <<>>
      /\ StartsCompute => log' = <<>>
    ]_vars

\* a compute call failed for want of a path while the transport was
\* initialized and a Frame and a COM target were registered
C3_Witness ==
  /\ smp.res = "NotConfigured" /\ log = <<>>
  /\ handle /\ frames # <<>> /\ coms # <<>>

\* C4: between the start and the end of a compute call (while compute holds
\* the lock), no step of addOperationalFrame, addCenterOfMass, setJointNames
\* or resetTopics is taken, so that the state they write and compute reads
\* (the target lists with their channels, the row views, the freeflyer
\* flag) does not change.
C4_ComputeExcludesReconfiguration ==
  [][ (mutex = "compute" /\ mutex' = "compute")
      => /\ UNCHANGED <<frames, coms, qView, vView, hasFreeflyer>>
         /\ cfg'.pc = cfg.pc
         /\ cfg'.op \in {"addOperationalFrame", "addCenterOfMass",
                         "setJointNames", "resetTopics"} => cfg' = cfg
    ]_vars

\* every bit of option a is a bit of option b
SubOption(a, b) == \A bit \in Bits : HasBit(a, bit) => HasBit(b, bit)

\* the publish calls the step has added to the log
Added == SubSeq(log', Len(log) + 1, Len(log'))

\* C5: the mode of a Frame or COM target is the OR of the modes registered
\* for its key since the last reset, a key registered since the last reset
\* has a target, a step never clears a bit of a target that stays
\* registered, and the loop of compute over the Frame targets publishes on
\* the pose and on the velocity channel of a target whose mode has both
\* bits.
C5_ModesAreWidened ==
  /\ [](/\ \A i \in 1 .. Len(frames) :
             frames[i].option = regF[frames[i].index].option
        /\ \A i \in 1 .. Len(coms) :
             coms[i].option = regC[coms[i].com].option
        /\ \A index \in FrameIndices :
             regF[index].option # 0 => FindFrame(frames, index) # 0
        /\ \A c \in ComHandles :
             regC[c].option # 0 => FindCom(coms, c) # 0)
  /\ [][ /\ \A i \in 1 .. Len(frames) :
              (i <= Len(frames') /\ frames'[i].index = frames[i].index)
              => SubOption(frames[i].option, frames'[i].option)
         /\ \A i \in 1 .. Len(coms) :
              (i <= Len(coms') /\ coms'[i].com = coms[i].com)
              => SubOption(coms[i].option, coms'[i].option)
         /\ (computeFrames /\ ~crashed')
              => \A i \in 1 .. Len(frames) :
                   frames[i].option \in {3, 7}
                   => \A bit \in {"Q", "V"} :
                        \E k \in 1 .. Len(Added) :
                          /\ Added[k].kind = "frame"
                          /\ Added[k].index = frames[i].index
                          /\ Added[k].bit = bit
       ]_vars

\* a frame registered with Position, Derivative and Acceleration in several
\* calls is one target of mode 7, and the compute call in progress has
\* published its pose and its velocity
C5_Witness ==
  /\ Len(frames) = 1 /\ frames[1].option = 7 /\ regF[frames[1].index].calls = 2
  /\ smp.pc = "coms"
  /\ Received("frame", frames[1].index, "", "Q") = 1
  /\ Received("frame", frames[1].index, "", "V") = 1

\* C6: the Frame target list holds at most one target per frame index, and
\* a registration of a frame whose target already has every bit of the
\* registered mode leaves the list with the same targets and the same modes.
C6_OneTargetPerFrame ==
  /\ [](\A i, j \in 1 .. Len(frames) :
          frames[i].index = frames[j].index => i = j)
  /\ [][ (/\ addOperationalFrameBody
          /\ cfg.name \in FrameNames
          /\ \E i \in 1 .. Len(frames) :
               /\ frames[i].index = getFrameId(cfg.name)
               /\ SubOption(cfg.option, frames[i].option))
         => /\ Len(frames') = Len(frames)
            /\ \A i \in 1 .. Len(frames) :
                 /\ frames'[i].index = frames[i].index
                 /\ frames'[i].option = frames[i].option
       ]_vars

\* both frames are registered, one of them twice with the mode Position, and
\* the list holds one target for each
C6_Witness ==
  /\ Len(frames) = 2
  /\ \E i \in 1 .. 2 :
       frames[i].option = Position /\ regF[frames[i].index].calls = 2

\* C7: while the process runs, the COM target list holds at most one target
\* per handle; its mode is the OR of the modes registered for the handle and
\* its channels are those advertised under the latest name registered for
\* it; resetTopics empties the list, and the loop of compute over the COM
\* targets publishes only for the targets the list holds.
C7_ComKeyedByHandle ==
  /\ [](crashed \/ \A i \in 1 .. Len(coms) :
          /\ \A j \in 1 .. Len(coms) : coms[i].com = coms[j].com => i = j
          /\ coms[i].option = regC[coms[i].com].option
          /\ HasBit(coms[i].option, Position)
               => coms[i].pubQ.topic = <<"com", regC[coms[i].com].last>>
          /\ HasBit(coms[i].option, Derivative)
               => coms[i].pubV.topic = <<"velocity/com", regC[coms[i].com].last>>)
  /\ [][ /\ resetTopics => (coms' = <<>> /\ frames' = <<>>)
         /\ computeComs
              => \A k \in 1 .. Len(Added) :
                   /\ Added[k].kind = "com"
                   /\ \E i \in 1 .. Len(coms) : coms[i].com = Added[k].com
       ]_vars

\* a handle registered under the two names, with Position and with
\* Derivative, is one target of mode 3 whose two channels bear one name,
\* next to the target of the other handle
C7_Witness ==
  /\ Len(coms) = 2
  /\ \E i \in 1 .. 2 :
       /\ regC[coms[i].com].names = ComNames
       /\ coms[i].option = 3
       /\ coms[i].pubQ.topic[2] = coms[i].pubV.topic[2]

\* C8: a registration call made while the transport handle does not exist
\* fails with NotInitialized and leaves the target lists, with their
\* channels, as they were.
C8_NotInitialized ==
  [][ (/\ ~handle
       /\ \/ \E name \in AllFrameNames, option \in Options :
               addOperationalFrameCall(name, option)
          \/ \E name \in ComNames, c \in ComHandles, option \in Options :
               addCenterOfMassCall(name, c, option))
      => /\ cfg'.pc = "idle" /\ cfg'.ret = "NotInitialized"
         /\ UNCHANGED <<frames, coms>>
    ]_vars

\* a registration failed with NotInitialized after a shutdown
C8_Witness ==
  /\ cfg.pc = "idle" /\ cfg.ret = "NotInitialized"
  /\ rosInit /\ ~handle

\* the step ends a call of addOperationalFrame with a name the model has no
\* frame for
EndsUnknownFrameCall ==
  \/ /\ \E name \in UnknownFrameNames, option \in Options :
          addOperationalFrameCall(name, option)
     /\ cfg'.pc = "idle"
  \/ /\ addOperationalFrameBody
     /\ cfg.name \in UnknownFrameNames

\* C9 as stated: every call of addOperationalFrame with a name the model has
\* no frame for returns false and changes no target and no channel.
C9_UnknownFrameReturnsFalse ==
  [][ EndsUnknownFrameCall
      => (cfg'.ret = "false" /\ UNCHANGED <<frames, coms>>) ]_vars

\* C9 amended: a call of addOperationalFrame with a name the model has no
\* frame for returns false when the transport handle exists at its entry
\* and fails with NotInitialized when it does not; either way it changes no
\* target and no channel.
C9_UnknownFrameFails ==
  [][ EndsUnknownFrameCall
      => /\ cfg'.pc = "idle"
         /\ cfg'.ret = IF cfg.pc = "idle" THEN "NotInitialized" ELSE "false"
         /\ cfg.pc = "idle" => ~handle
         /\ UNCHANGED <<frames, coms>>
    ]_vars

\* addOperationalFrame returned false while a Frame target was registered
C9_Witness ==
  /\ cfg.op = "addOperationalFrame" /\ cfg.ret = "false"
  /\ frames # <<>>

\* C10: the body of shutdownRos runs with the lock held, outside any compute
\* call, and leaves no Frame or COM target, the whole-body channels closed
\* and the transport handle released; a call of shutdownRos made while the
\* handle does not exist returns at once and changes nothing.
C10_Shutdown ==
  /\ [](td = "locked" => (mutex = "shutdown" /\ smp.pc = "idle"))
  /\ [][ /\ shutdownRosBody
              => /\ frames' = <<>> /\ coms' = <<>>
                 /\ ~wbOpen' /\ ~handle'
                 /\ td' = "idle" /\ mutex' = "free"
         /\ (shutdownRosCall /\ ~handle)
              => /\ td' = "idle"
                 /\ UNCHANGED <<path, handle, rosInit, wbOpen, frames, coms,
                                hasFreeflyer, qView, vView, mutex>>
       ]_vars

\* shutdownRos has run: the transport was initialized, the handle is
\* released, the whole-body channels are closed and no target is left
C10_Witness ==
  /\ rosInit /\ ~handle /\ ~wbOpen
  /\ frames = <<>> /\ coms = <<>>
  /\ td = "idle" /\ mutex = "free"

-----------------------------------------------------------------------------
(* Row views and whole-body messages *)

\* the sum of the configuration sizes (kind "q") or of the numbers of degrees
\* of freedom (kind "v") of the listed joints
RECURSIVE SumSizes(_, _)
SumSizes(names, kind) ==
  IF names = <<>> THEN 0
  ELSE (IF kind = "q" THEN configSize(Head(names)) ELSE numberDof(Head(names)))
       + SumSizes(Tail(names), kind)

\* the values of the listed joints in the full vector vec, joint after joint
\* in the order of the list
RECURSIVE JointValues(_, _, _)
JointValues(names, kind, vec) ==
  IF names = <<>> THEN <<>>
  ELSE LET j == Head(names)
           rank == IF kind = "q" THEN rankInConfiguration(j) ELSE rankInVelocity(j)
           size == IF kind = "q" THEN configSize(j) ELSE numberDof(j)
       IN SubSeq(vec, rank + 1, rank + size) \o JointValues(Tail(names), kind, vec)

\* a full vector of n scalars, pairwise different and different from their
\* ranks
FullVectors(n) == {[i \in 1 .. n |-> 2 * (n - i) + 1]}

\* the ranks of the full vector that belong to a listed joint
Covered(names, kind) ==
  UNION {LET j == names[k]
             rank == IF kind = "q" THEN rankInConfiguration(j) ELSE rankInVelocity(j)
             size == IF kind = "q" THEN configSize(j) ELSE numberDof(j)
         IN rank .. (rank + size - 1) : k \in 1 .. Len(names)}

\* the entries of vec at the ranks of S, by increasing rank
InRankOrder(S, vec) ==
  [k \in 1 .. Cardinality(S) |->
     vec[1 + CHOOSE r \in S : Cardinality({x \in S : x < r}) = k - 1]]

NoRepeat(names) ==
  \A i, k \in 1 .. Len(names) : names[i] = names[k] => i = k

\* the step is a call of setJointNames
SetsJointNames == cfg'.op = "setJointNames" /\ setJointNames(cfg'.names)

\* the step is a call of setJointNames with a list free of floating-base joints
SetsPlainJoints == SetsJointNames /\ ~JointsHaveFreeflyer(cfg'.names)

\* C11 as stated: for every list of joint names without a floating-base
\* joint, after setJointNames the size of the configuration (velocity) view
\* is the sum of the configuration sizes (numbers of degrees of freedom) of
\* the listed joints, and the extraction from a full vector is the values of
\* the joints in the order of the list.
C11_RowViewInListOrder ==
  [][ SetsPlainJoints
      => /\ nbIndices(qView') = SumSizes(cfg'.names, "q")
         /\ nbIndices(vView') = SumSizes(cfg'.names, "v")
         /\ \A q \in FullVectors(DeviceConfigSize) :
              rview(qView', q) = JointValues(cfg'.names, "q", q)
         /\ \A v \in FullVectors(DeviceNumberDof) :
              rview(vView', v) = JointValues(cfg'.names, "v", v)
    ]_vars

\* the names are listed by increasing rank in the full vectors
ByIncreasingRank(names) ==
  \A i \in 1 .. (Len(names) - 1) :
    rankInConfiguration(names[i]) < rankInConfiguration(names[i + 1])

\* C11 amended: for every list of joint names without a floating-base joint,
\* after setJointNames the extraction from a full vector is the entries at
\* the ranks of the listed joints by increasing rank, each rank once; when no
\* name is repeated the size of the view is the sum of the sizes of the
\* listed joints, and when moreover the names are listed by increasing rank
\* the extraction is the values of the joints in the order of the list.
C11_RowViewInRankOrder ==
  [][ SetsPlainJoints
      => LET names == cfg'.names
             q == CHOOSE vec \in FullVectors(DeviceConfigSize) : TRUE
             v == CHOOSE vec \in FullVectors(DeviceNumberDof) : TRUE
             qOut == rview(qView', q)
             vOut == rview(vView', v)
         IN /\ qOut = InRankOrder(Covered(names, "q"), q)
            /\ vOut = InRankOrder(Covered(names, "v"), v)
            /\ NoRepeat(names)
                 => /\ nbIndices(qView') = SumSizes(names, "q")
                    /\ nbIndices(vView') = SumSizes(names, "v")
            /\ ByIncreasingRank(names)
                 => /\ qOut = JointValues(names, "q", q)
                    /\ vOut = JointValues(names, "v", v)
    ]_vars

\* setJointNames has returned from a call with j3 before j1, and the
\* configuration view has two rows of one scalar
C11_Witness ==
  /\ cfg.op = "setJointNames" /\ ~hasFreeflyer
  /\ Len(cfg.names) = 2 /\ cfg.names[1] = "j3" /\ cfg.names[2] = "j1"
  /\ Len(qView) = 2 /\ nbIndices(qView) = 2 /\ nbIndices(vView) = 2

\* the ranks of the full vector that the view selects
ViewRanks(view) ==
  UNION {view[k][1] .. (view[k][1] + view[k][2] - 1) : k \in 1 .. Len(view)}

\* the ranks, in the configuration or velocity vector, of the joints of the
\* list that are not floating-base joints
PlainRanks(names, kind) ==
  UNION {LET j == names[k]
         IN IF IsFreeflyerJoint(j) THEN {}
            ELSE IF kind = "q"
            THEN rankInConfiguration(j) .. (rankInConfiguration(j) + configSize(j) - 1)
            ELSE rankInVelocity(j) .. (rankInVelocity(j) + numberDof(j) - 1) :
         k \in 1 .. Len(names)}

\* C12: whatever the state in which setJointNames(names) is called, after it
\* the freeflyer flag is set if and only if names has a floating-base joint,
\* and each view selects the ranks of the other joints of names and nothing
\* else, each rank once: the floating-base joints contribute no row and no
\* row of an earlier call is left.
C12_RebuiltWholesale ==
  [][ SetsJointNames
      => LET plainQ == PlainRanks(cfg'.names, "q")
             plainV == PlainRanks(cfg'.names, "v")
         IN /\ hasFreeflyer' <=> \E k \in 1 .. Len(cfg'.names) :
                                   IsFreeflyerJoint(cfg'.names[k])
            /\ ViewRanks(qView') = plainQ
            /\ ViewRanks(vView') = plainV
            /\ nbIndices(qView') = Cardinality(plainQ)
            /\ nbIndices(vView') = Cardinality(plainV)
    ]_vars

\* setJointNames has returned from a call with the floating base and j3: the
\* flag is set and the views hold the row of j3 alone
C12_Witness ==
  /\ cfg.op = "setJointNames" /\ cfg.names = <<"root", "j3">>
  /\ hasFreeflyer
  /\ qView = <<<<rankInConfiguration("j3"), configSize("j3")>>>>
  /\ vView = <<<<rankInVelocity("j3"), numberDof("j3")>>>>

\* C13: the step of compute that builds and publishes the three whole-body
\* messages publishes, in this order, a position message of length
\* (6 if the freeflyer flag is set, else 0) + the size of the configuration
\* view and a velocity and an acceleration message of length (6 or 0) + the
\* size of the velocity view; after the prefix each message holds the
\* extraction of its sampled vector through its view, and when the flag is
\* set the first 6 scalars of the velocity and of the acceleration message
\* are zeros.
C13_WholeBodyLayout ==
  [][ (computeWholeBody /\ ~crashed')
      => LET prefix == IF hasFreeflyer THEN 6 ELSE 0
             view(k) == IF k = 1 THEN qView ELSE vView
             sampled(k) == IF k = 1 THEN Sampled("q", DeviceConfigSize)
                           ELSE IF k = 2 THEN Sampled("v", DeviceNumberDof)
                           ELSE Sampled("a", DeviceNumberDof)
         IN /\ Len(Added) = 3
            /\ <<Added[1].bit, Added[2].bit, Added[3].bit>> = <<"Q", "V", "A">>
            /\ \A k \in 1 .. 3 :
                 /\ Added[k].kind = "wb"
                 /\ Added[k].len = prefix + nbIndices(view(k))
                 /\ Len(Added[k].data) = Added[k].len
                 /\ SubSeq(Added[k].data, prefix + 1, Added[k].len)
                      = rview(view(k), sampled(k))
            /\ \A k \in 2 .. 3, i \in 1 .. prefix : Added[k].data[i] = Zero
    ]_vars

\* the whole-body step of a compute call has published, on open channels,
\* the three messages of a selection made of the floating base and j3: each
\* has 7 scalars, and the first 6 of the velocity and of the acceleration
\* message are zeros
C13_Witness ==
  /\ smp.pc = "frames" /\ Len(log) = 3
  /\ \A k \in 1 .. 3 : log[k].ok /\ log[k].len = 6 + 1
  /\ \A k \in 2 .. 3, i \in 1 .. 6 : log[k].data[i] = Zero
  /\ log[1].data[7] = <<"q", rankInConfiguration("j3")>>
  /\ log[3].data[7] = <<"a", rankInVelocity("j3")>>

-----------------------------------------------------------------------------
(* Reset, channels and order *)

\* C14: resetTopics leaves no Frame and no COM target, hence none of their
\* channels, and leaves the path, the row views, the freeflyer flag, the
\* transport handle and the whole-body channels as they were; the
\* whole-body step of a compute call that follows a resetTopics on an
\* object whose whole-body channels are open publishes the three messages
\* on them.
C14_ResetTopics ==
  [][ /\ resetTopics
           => /\ frames' = <<>> /\ coms' = <<>>
              /\ UNCHANGED <<path, qView, vView, hasFreeflyer, handle, rosInit,
                             wbOpen, mutex>>
      /\ (computeWholeBody /\ cfg.op = "resetTopics" /\ wbOpen /\ ~crashed')
           => /\ Len(Added) = 3
              /\ \A k \in 1 .. 3 : Added[k].kind = "wb" /\ Added[k].ok
    ]_vars

\* the last call of the configurator is a resetTopics that followed a
\* registration, no target is left, and the compute call in progress has
\* published the three whole-body messages on open channels
C14_Witness ==
  /\ cfg.pc = "idle" /\ cfg.op = "resetTopics"
  /\ frames = <<>> /\ coms = <<>> /\ handle /\ wbOpen
  /\ smp.pc = "frames" /\ Len(log) = 3
  /\ \A k \in 1 .. 3 : log[k].kind = "wb" /\ log[k].ok

\* C15: every message the loop of compute over the COM targets publishes for
\* a target carries a value computed for that target in the same iteration,
\* whatever the mode of the target (1 to 7): the position for the Position
\* bit and the jacobian for the Derivative bit are computed before the
\* message is published, the Acceleration bit set or not.
C15_ComValuesAreCurrent ==
  [][ computeComs
      => \A k \in 1 .. Len(Added) :
           Added[k].kind = "com" => Added[k].value = Added[k].com
    ]_vars

\* the target t has an open channel for each of the Position and Derivative
\* bits of its mode, and no channel for a bit its mode does not have
ChannelsMatchMode(t) ==
  /\ IF HasBit(t.option, Position) THEN t.pubQ.live ELSE t.pubQ = NoPub
  /\ IF HasBit(t.option, Derivative) THEN t.pubV.live ELSE t.pubV = NoPub

\* C16: while the process runs, every Frame and COM target has an open pose
\* or position channel if its mode has the Position bit, an open velocity
\* channel if its mode has the Derivative bit, and no other channel: the
\* Acceleration bit gives none.
C16_ChannelsMatchModes ==
  crashed \/ /\ \A i \in 1 .. Len(frames) : ChannelsMatchMode(frames[i])
             /\ \A i \in 1 .. Len(coms) : ChannelsMatchMode(coms[i])

\* the place of a message kind in a compute call
KindRank(kind) == IF kind = "wb" THEN 1 ELSE IF kind = "frame" THEN 2 ELSE 3

\* the place of a channel among the channels of one target
BitRank(bit) == IF bit = "Q" THEN 1 ELSE IF bit = "V" THEN 2 ELSE 3

\* in msgs the targets come by increasing place, and for each target the
\* pose or position before the velocity; place(m) is the place of the target
\* of message m
InTargetOrder(msgs, place(_)) ==
  \A i, k \in 1 .. Len(msgs) :
    i < k => \/ place(msgs[i]) < place(msgs[k])
             \/ /\ place(msgs[i]) = place(msgs[k])
                /\ BitRank(msgs[i].bit) < BitRank(msgs[k].bit)

\* C17: the publish calls of a compute call are made in this order: the
\* whole-body position, velocity and acceleration, then the messages of the
\* Frame targets, then those of the COM targets; the loop over the Frame
\* (COM) targets publishes by order of first registration since the last
\* reset, the pose (position) of a target before its velocity; while the
\* process runs a target stands in its list at the place of its first
\* registration, and a registration moves no target of the list.
C17_PublishOrder ==
  /\ [](\A i, k \in 1 .. Len(log) :
          i < k => \/ KindRank(log[i].kind) < KindRank(log[k].kind)
                   \/ /\ log[i].kind = log[k].kind
                      /\ log[i].kind = "wb" => BitRank(log[i].bit) < BitRank(log[k].bit))
  /\ [](crashed \/ ((\A i \in 1 .. Len(frames) : regF[frames[i].index].seq = i)
                     /\ (\A i \in 1 .. Len(coms) : regC[coms[i].com].seq = i)))
  /\ [][ /\ computeFrames
              => LET place(m) == regF[m.index].seq
                 IN InTargetOrder(Added, place)
         /\ computeComs
              => LET place(m) == regC[m.com].seq
                 IN InTargetOrder(Added, place)
         /\ (addOperationalFrameBody \/ addCenterOfMassBody)
              => /\ \A i \in 1 .. Len(frames) : frames'[i].index = frames[i].index
                 /\ \A i \in 1 .. Len(coms) : coms'[i].com = coms[i].com
       ]_vars

\* f2 was registered before f1 and c2 before c1, f2 and c2 were registered
\* again after them, and the compute call in progress has published the
\* three whole-body messages, then f2 before f1, then c2 before c1, with
\* the pose of f2 before its velocity
C17_Witness ==
  /\ smp.pc = "return" /\ Len(log) = 11
  /\ regF[2].seq = 1 /\ regF[2].calls = 2 /\ regF[1].seq = 2
  /\ regC["c2"].seq = 1 /\ regC["c2"].option = 3 /\ regC["c1"].seq = 2
  /\ <<log[1].bit, log[2].bit, log[3].bit>> = <<"Q", "V", "A">>
  /\ <<log[4].index, log[5].index, log[6].index, log[7].index>> = <<2, 2, 1, 1>>
  /\ <<log[4].bit, log[5].bit>> = <<"Q", "V">>
  /\ <<log[8].com, log[9].com, log[10].com, log[11].com>> = <<"c2", "c2", "c1", "c1">>

-----------------------------------------------------------------------------
(* Transport and lock *)

\* C18: every publish call of the compute call in progress was made on a
\* channel that was open at the call: a whole-body channel advertised by
\* initializeRosNode and not shut down since, or a channel of a target
\* advertised through a live handle.
C18_PublishesOnOpenChannels ==
  \A i \in 1 .. Len(log) : log[i].ok

\* C19: a registration call that has passed the test of handle_ merges or
\* pushes its target and advertises its channels while the handle is alive,
\* whatever steps of shutdownRos are taken around it.
C19_RegistrationUsesLiveHandle ==
  [][ ((addOperationalFrameBody /\ cfg.name \in FrameNames) \/ addCenterOfMassBody)
      => handle
    ]_vars

====
